---- MODULE Spec2Model ----
(***************************************************************************)
(* VibeOBS: the OBS WebSocket session (obs_controller.py), the foreground  *)
(* application monitor (window_monitor.py) and the daemon loop             *)
(* (vibeobs_daemon.py), each as a state machine over the same remote, and  *)
(* the configuration loader (config_manager.py) over the same file.        *)
(***************************************************************************)
EXTENDS Integers, Sequences, FiniteSets, TLC

VARIABLES
    obs,        \* the OBSController object: config, client, available_scenes, reconnect_attempts
    remote,     \* the OBS side: reachable or not, its scene inventory, the held link alive or not
    last,       \* the operation performed last: name, argument, result, state at entry, transport requests
    streak,     \* failed connect attempts in a row: since the last successful connect, and since that or a counter reset
    wm,         \* the WindowMonitor object: last_active_app, app_change_callbacks, app_history
    poll,       \* the WindowMonitor call made last: argument or probe result, return value, callbacks invoked, state at entry
    seen,       \* the probe results so far: the last valid one, whether the last one failed, the last transition,
                \* the apps that were current before it, runs and transitions counted
    daemon,     \* the VibeOBSDaemon object and its place in run(): created, loop, stopped
    file,       \* the configuration file: content and modification time
    tick,       \* the daemon step made last: probe result, switch_scene calls, transport requests, sleep,
                \* exception caught by the loop or not, configuration reloaded or not, failure counted or not
    tally       \* the daemon's polls so far: the last valid probe result, mapped transitions and switch_scene calls counted,
                \* whether the switch of the last transition failed, reloads counted
VARIABLES
    cm,         \* the ConfigManager object and the class attribute DEFAULT_CONFIG its configurations are copied from
    cfg         \* the ConfigManager call made last: name, return value, configuration and class attribute at entry

vars == <<obs, remote, last, streak, wm, poll, seen, daemon, file, tick, tally, cm, cfg>>

(***************************************************************************)
(* Values                                                                  *)
(***************************************************************************)

\* The scene names the remote may hold and callers may ask for.
Scenes == {"editor", "terminal"}

\* obs_config.get("host", "localhost"), .get("port", 4455), .get("password", "")
Server == [host |-> "localhost", port |-> 4455, password |-> ""]

\* The connection settings a configuration may carry: the remote's own, and
\* ones it refuses (another password, another host).
Endpoints == {Server, [Server EXCEPT !.password = "secret"], [Server EXCEPT !.host = "studio"]}

\* self.client = None
NoClient == [host |-> "None", port |-> 0, password |-> "None"]

\* self.max_reconnect_attempts = 10
max_reconnect_attempts == 10

\* The model stops counting failed connects here (above the ceiling of 10).
MaxAttempts == 11

(***************************************************************************)
(* A run of a method body: the object, the remote, the transport requests  *)
(* made so far (in order) and the value returned.                          *)
(***************************************************************************)

Run(o, r, lg, rt) == [obs |-> o, remote |-> r, log |-> lg, ret |-> rt]

\* One transport request: what was asked, over which client object, and whether it was answered.
Req(name, via, ok) == [req |-> name, via |-> via, ok |-> ok]

Sent(lg, name) == SelectSeq(lg, LAMBDA e : e.req = name)

\* obsws(host, port, password).connect(): accepted only by a reachable remote
\* at its own address with its own password.
TransportAccepts(o, r) == r.up /\ o.config = Server

\* OBSController._update_available_scenes
UpdateAvailableScenes(s) ==
    IF s.obs.client = NoClient
    THEN s
    ELSE IF s.remote.link
         THEN [s EXCEPT !.obs.available_scenes = s.remote.scenes,
                        !.log = Append(s.log, Req("GetSceneList", s.obs.client, TRUE))]
         ELSE [s EXCEPT !.obs.available_scenes = {},
                        !.log = Append(s.log, Req("GetSceneList", s.obs.client, FALSE))]

\* connect that leaves the counter alone when it succeeds
ConnectKeepsCount(s) ==
    IF TransportAccepts(s.obs, s.remote)
    THEN LET c == [s EXCEPT !.obs.client = s.obs.config,
                            !.remote.link = TRUE,
                            !.log = Append(s.log, Req("connect", s.obs.config, TRUE))]
         IN  [UpdateAvailableScenes(c) EXCEPT !.ret = "True"]
    ELSE [s EXCEPT !.obs.client = NoClient,
                   !.remote.link = FALSE,
                   !.log = Append(s.log, Req("connect", s.obs.config, FALSE)),
                   !.obs.reconnect_attempts = s.obs.reconnect_attempts + 1,
                   !.ret = "False"]

\* connect that does not count a failure
ConnectFailureUncounted(s) ==
    IF TransportAccepts(s.obs, s.remote)
    THEN LET c == [s EXCEPT !.obs.client = s.obs.config,
                            !.remote.link = TRUE,
                            !.log = Append(s.log, Req("connect", s.obs.config, TRUE)),
                            !.obs.reconnect_attempts = 0]
         IN  [UpdateAvailableScenes(c) EXCEPT !.ret = "True"]
    ELSE [s EXCEPT !.obs.client = NoClient,
                   !.remote.link = FALSE,
                   !.log = Append(s.log, Req("connect", s.obs.config, FALSE)),
                   !.ret = "False"]

\* connect that gives up, without trying, once the ceiling is reached
ConnectWithBreaker(s) ==
    IF s.obs.reconnect_attempts >= max_reconnect_attempts
    THEN [s EXCEPT !.obs.client = NoClient, !.remote.link = FALSE, !.ret = "False"]
    ELSE IF TransportAccepts(s.obs, s.remote)
         THEN LET c == [s EXCEPT !.obs.client = s.obs.config,
                                 !.remote.link = TRUE,
                                 !.log = Append(s.log, Req("connect", s.obs.config, TRUE)),
                                 !.obs.reconnect_attempts = 0]
              IN  [UpdateAvailableScenes(c) EXCEPT !.ret = "True"]
         ELSE [s EXCEPT !.obs.client = NoClient,
                        !.remote.link = FALSE,
                        !.log = Append(s.log, Req("connect", s.obs.config, FALSE)),
                        !.obs.reconnect_attempts = s.obs.reconnect_attempts + 1,
                        !.ret = "False"]

\* connect that keeps the client object it built when the attempt fails
ConnectFailureKeepsClient(s) ==
    IF TransportAccepts(s.obs, s.remote)
    THEN LET c == [s EXCEPT !.obs.client = s.obs.config,
                            !.remote.link = TRUE,
                            !.log = Append(s.log, Req("connect", s.obs.config, TRUE)),
                            !.obs.reconnect_attempts = 0]
         IN  [UpdateAvailableScenes(c) EXCEPT !.ret = "True"]
    ELSE [s EXCEPT !.obs.client = s.obs.config,
                   !.remote.link = FALSE,
                   !.log = Append(s.log, Req("connect", s.obs.config, FALSE)),
                   !.obs.reconnect_attempts = s.obs.reconnect_attempts + 1,
                   !.ret = "False"]

\* OBSController.connect
Connect(s) ==
    IF TransportAccepts(s.obs, s.remote)
    THEN LET c == [s EXCEPT !.obs.client = s.obs.config,
                            !.remote.link = TRUE,
                            !.log = Append(s.log, Req("connect", s.obs.config, TRUE)),
                            !.obs.reconnect_attempts = 0]
         IN  [UpdateAvailableScenes(c) EXCEPT !.ret = "True"]
    ELSE [s EXCEPT !.obs.client = NoClient,
                   !.remote.link = FALSE,
                   !.log = Append(s.log, Req("connect", s.obs.config, FALSE)),
                   !.obs.reconnect_attempts = s.obs.reconnect_attempts + 1,
                   !.ret = "False"]

\* OBSController.disconnect
Disconnect(s) ==
    IF s.obs.client # NoClient
    THEN [s EXCEPT !.log = Append(s.log, Req("disconnect", s.obs.client, s.remote.link)),
                   !.obs.client = NoClient,
                   !.obs.available_scenes = {},
                   !.remote.link = FALSE,
                   !.ret = "None"]
    ELSE [s EXCEPT !.ret = "None"]

\* the switch request with an except branch that keeps the client object
SetKeepsClient(s) ==
    IF s.obs.client = NoClient
    THEN [s EXCEPT !.ret = "False"]
    ELSE IF s.remote.link
         THEN [s EXCEPT !.log = Append(s.log, Req("SetCurrentProgramScene", s.obs.client, TRUE)),
                        !.ret = "True"]
         ELSE [s EXCEPT !.log = Append(s.log, Req("SetCurrentProgramScene", s.obs.client, FALSE)),
                        !.ret = "False"]

\* self.client.call(requests.SetCurrentProgramScene(sceneName=scene_name)) and
\* the except branch around it (switch_scene, lines 128-137)
SetCurrentProgramScene(s) ==
    IF s.obs.client = NoClient
    THEN [s EXCEPT !.ret = "False"]
    ELSE IF s.remote.link
         THEN [s EXCEPT !.log = Append(s.log, Req("SetCurrentProgramScene", s.obs.client, TRUE)),
                        !.ret = "True"]
         ELSE [s EXCEPT !.log = Append(s.log, Req("SetCurrentProgramScene", s.obs.client, FALSE)),
                        !.obs.client = NoClient,
                        !.ret = "False"]

\* the try block without the second membership test after the refresh
ValidateNoRecheck(s, scene_name) ==
    IF scene_name \notin s.obs.available_scenes
    THEN SetCurrentProgramScene(UpdateAvailableScenes(s))
    ELSE SetCurrentProgramScene(s)

\* the try block trusting the cache: a miss fails without a refresh
ValidateTrustsCache(s, scene_name) ==
    IF scene_name \notin s.obs.available_scenes
    THEN [s EXCEPT !.ret = "False"]
    ELSE SetCurrentProgramScene(s)

\* the try block refreshing the cache on every call
ValidateAlwaysRefreshes(s, scene_name) ==
    LET u == UpdateAvailableScenes(s)
    IN  IF scene_name \notin u.obs.available_scenes
        THEN [u EXCEPT !.ret = "False"]
        ELSE SetCurrentProgramScene(u)

\* The try block of switch_scene (lines 116-137)
ValidateAndSwitch(s, scene_name) ==
    IF scene_name \notin s.obs.available_scenes
    THEN LET u == UpdateAvailableScenes(s)
         IN  IF scene_name \notin u.obs.available_scenes
             THEN [u EXCEPT !.ret = "False"]
             ELSE SetCurrentProgramScene(u)
    ELSE SetCurrentProgramScene(s)

\* switch_scene that fails at once when there is no client, without connecting
SwitchSceneNoReconnect(s, scene_name) ==
    IF s.obs.client = NoClient
    THEN [s EXCEPT !.ret = "False"]
    ELSE ValidateAndSwitch(s, scene_name)

\* OBSController.switch_scene
SwitchScene(s, scene_name) ==
    IF s.obs.client = NoClient
    THEN LET c == Connect(s)
         IN  IF c.ret = "False" THEN c ELSE ValidateAndSwitch(c, scene_name)
    ELSE ValidateAndSwitch(s, scene_name)

\* get_current_scene without its try/except: the exception of the call reaches the caller
GetCurrentSceneUnguarded(s) ==
    IF s.obs.client = NoClient
    THEN [s EXCEPT !.ret = "None"]
    ELSE IF s.remote.link
         THEN [s EXCEPT !.log = Append(s.log, Req("GetCurrentProgramScene", s.obs.client, TRUE)),
                        !.ret = "Scene"]
         ELSE [s EXCEPT !.log = Append(s.log, Req("GetCurrentProgramScene", s.obs.client, FALSE)),
                        !.ret = "Raise"]

\* OBSController.get_current_scene
GetCurrentScene(s) ==
    IF s.obs.client = NoClient
    THEN [s EXCEPT !.ret = "None"]
    ELSE IF s.remote.link
         THEN [s EXCEPT !.log = Append(s.log, Req("GetCurrentProgramScene", s.obs.client, TRUE)),
                        !.ret = "Scene"]
         ELSE [s EXCEPT !.log = Append(s.log, Req("GetCurrentProgramScene", s.obs.client, FALSE)),
                        !.ret = "None"]

\* OBSController.get_available_scenes
GetAvailableScenes(s) ==
    LET u == IF s.obs.available_scenes = {} THEN UpdateAvailableScenes(s) ELSE s
    IN  [u EXCEPT !.ret = "List"]

\* update_config reconnecting whether or not the connection settings changed
UpdateConfigAlwaysReconnects(s, new_config) ==
    Connect(Disconnect([s EXCEPT !.obs.config = new_config]))

\* update_config reconnecting before it stores the new configuration
UpdateConfigStaleEndpoint(s, new_config) ==
    LET connection_changed ==
            \/ s.obs.config.host # new_config.host
            \/ s.obs.config.port # new_config.port
            \/ s.obs.config.password # new_config.password
    IN  IF connection_changed
        THEN [Connect(Disconnect(s)) EXCEPT !.obs.config = new_config]
        ELSE [s EXCEPT !.obs.config = new_config, !.ret = "True"]

\* OBSController.update_config
UpdateConfig(s, new_config) ==
    LET connection_changed ==
            \/ s.obs.config.host # new_config.host
            \/ s.obs.config.port # new_config.port
            \/ s.obs.config.password # new_config.password
        n == [s EXCEPT !.obs.config = new_config]
    IN  IF connection_changed
        THEN Connect(Disconnect(n))
        ELSE [n EXCEPT !.ret = "True"]

\* OBSController.reset_reconnect_counter
ResetReconnectCounter(s) ==
    [s EXCEPT !.obs.reconnect_attempts = 0, !.ret = "None"]

\* get_stats counting the scenes of get_available_scenes() instead of the cache
GetStatsCountsFreshScenes(s) ==
    [GetCurrentScene(GetAvailableScenes(s)) EXCEPT !.ret = "Dict"]

\* OBSController.get_stats
GetStats(s) ==
    [GetCurrentScene(s) EXCEPT !.ret = "Dict"]

\* Nothing done yet, or the remote moved since.
Idle ==
    [op |-> "none", arg |-> "", ret |-> "None", log |-> <<>>,
     pre |-> [client |-> NoClient, available_scenes |-> {},
              reconnect_attempts |-> 0, config |-> Server, link |-> FALSE]]

(***************************************************************************)
(* WindowMonitor                                                           *)
(***************************************************************************)

\* The foreground applications.
Apps == {"Emacs", "Finder"}

\* Python's None where an application name is expected.
NoApp == "None"

\* What get_active_app may return: a name, an empty name, or None on error.
ProbeResults == Apps \cup {"", NoApp}

\* The callables that may be registered.
Subscribers == {"on_change", "on_log"}

\* self._max_history = 10
max_history == 10

\* The run and transition counters stop here.
MaxCount == 3

\* The model follows a monitor through this many changes of the current app
\* between two resets (above the capacity of 10 of the history).
MaxPast == 12

\* Python truth of an application name: None and "" are false.
Truthy(app) == app # NoApp /\ app # ""

\* WindowMonitor.__init__
NewMonitor == [last_active_app |-> NoApp, app_change_callbacks |-> <<>>, app_history |-> <<>>]

\* _add_to_history dropping the entry just added when over capacity (pop() for pop(0))
AddToHistoryEvictsNewest(m, app_name) ==
    LET h == Append(m.app_history, app_name)
    IN  [m EXCEPT !.app_history = IF Len(h) > max_history THEN SubSeq(h, 1, Len(h) - 1) ELSE h]

\* WindowMonitor._add_to_history
AddToHistory(m, app_name) ==
    LET h == Append(m.app_history, app_name)
    IN  [m EXCEPT !.app_history = IF Len(h) > max_history THEN Tail(h) ELSE h]

\* has_app_changed filing the new app, not the one it replaces, in the history
HasAppChangedFilesCurrent(m, current_app) ==
    IF Truthy(current_app) /\ current_app # m.last_active_app
    THEN [m |-> [(IF Truthy(m.last_active_app) THEN AddToHistory(m, current_app) ELSE m)
                    EXCEPT !.last_active_app = current_app],
          ret |-> TRUE]
    ELSE [m |-> m, ret |-> FALSE]

\* has_app_changed reporting every valid probe as a change
HasAppChangedAlways(m, current_app) ==
    IF Truthy(current_app)
    THEN [m |-> [(IF Truthy(m.last_active_app) THEN AddToHistory(m, m.last_active_app) ELSE m)
                    EXCEPT !.last_active_app = current_app],
          ret |-> TRUE]
    ELSE [m |-> m, ret |-> FALSE]

\* WindowMonitor.has_app_changed: the monitor afterwards and the value returned
HasAppChanged(m, current_app) ==
    IF Truthy(current_app) /\ current_app # m.last_active_app
    THEN [m |-> [(IF Truthy(m.last_active_app) THEN AddToHistory(m, m.last_active_app) ELSE m)
                    EXCEPT !.last_active_app = current_app],
          ret |-> TRUE]
    ELSE [m |-> m, ret |-> FALSE]

\* get_last_app returning the oldest entry of the history
GetLastAppOldest(m) ==
    IF m.app_history # <<>> THEN m.app_history[1] ELSE NoApp

\* WindowMonitor.get_last_app
GetLastApp(m) ==
    IF m.app_history # <<>> THEN m.app_history[Len(m.app_history)] ELSE NoApp

\* the for loop without its try/except: the first callback that raises ends it
NotifyStopsAtRaise(m, current_app, raising) ==
    LET cs == m.app_change_callbacks
        stop == IF \E i \in 1..Len(cs) : cs[i] \in raising
                THEN CHOOSE i \in 1..Len(cs) :
                        /\ cs[i] \in raising
                        /\ \A j \in 1..(i - 1) : cs[j] \notin raising
                ELSE Len(cs)
    IN  [i \in 1..stop |->
            [callback |-> cs[i],
             old_app |-> GetLastApp(m),
             new_app |-> current_app,
             raised |-> cs[i] \in raising]]

\* The for loop of check_and_notify: one invocation per registered callback,
\* in order, each with (get_last_app(), current_app); a raising one is logged.
Notify(m, current_app, raising) ==
    [i \in 1..Len(m.app_change_callbacks) |->
        [callback |-> m.app_change_callbacks[i],
         old_app |-> GetLastApp(m),
         new_app |-> current_app,
         raised |-> m.app_change_callbacks[i] \in raising]]

\* check_and_notify forgetting the stored app when the probe yields nothing
CheckAndNotifyForgetsOnFailure(m, current_app, raising) ==
    LET c == HasAppChanged(m, current_app)
    IN  IF Truthy(current_app) /\ c.ret
        THEN [m |-> c.m, ret |-> current_app, calls |-> Notify(c.m, current_app, raising)]
        ELSE [m |-> IF Truthy(current_app) THEN c.m ELSE [m EXCEPT !.last_active_app = NoApp],
              ret |-> NoApp, calls |-> <<>>]

\* WindowMonitor.check_and_notify, get_active_app having returned current_app
CheckAndNotify(m, current_app, raising) ==
    LET c == HasAppChanged(m, current_app)
    IN  IF Truthy(current_app) /\ c.ret
        THEN [m |-> c.m, ret |-> current_app, calls |-> Notify(c.m, current_app, raising)]
        ELSE [m |-> IF Truthy(current_app) THEN c.m ELSE m, ret |-> NoApp, calls |-> <<>>]

\* register_callback without the membership test
RegisterCallbackAlways(m, callback) ==
    [m EXCEPT !.app_change_callbacks = Append(m.app_change_callbacks, callback)]

\* WindowMonitor.register_callback
RegisterCallback(m, callback) ==
    IF \A i \in 1..Len(m.app_change_callbacks) : m.app_change_callbacks[i] # callback
    THEN [m EXCEPT !.app_change_callbacks = Append(m.app_change_callbacks, callback)]
    ELSE m

\* WindowMonitor.unregister_callback (list.remove: the first occurrence)
UnregisterCallback(m, callback) ==
    IF \E i \in 1..Len(m.app_change_callbacks) : m.app_change_callbacks[i] = callback
    THEN LET k == CHOOSE i \in 1..Len(m.app_change_callbacks) :
                     /\ m.app_change_callbacks[i] = callback
                     /\ \A j \in 1..(i - 1) : m.app_change_callbacks[j] # callback
         IN  [m EXCEPT !.app_change_callbacks =
                    SubSeq(m.app_change_callbacks, 1, k - 1)
                    \o SubSeq(m.app_change_callbacks, k + 1, Len(m.app_change_callbacks))]
    ELSE m

\* WindowMonitor.reset
Reset(m) == [m EXCEPT !.last_active_app = NoApp, !.app_history = <<>>]

\* No WindowMonitor call made yet.
NoPoll ==
    [op |-> "none", arg |-> "", probe |-> NoApp, ret |-> NoApp, calls |-> <<>>,
     pre |-> NewMonitor, before |-> [probe |-> NoApp, current |-> NoApp, failed |-> FALSE]]

\* No probe result seen yet (construction, or reset).
NothingSeen ==
    [probe |-> NoApp, failed |-> FALSE, current |-> NoApp, past |-> <<>>,
     runs |-> 0, transitions |-> 0]

Bump(n) == IF n < MaxCount THEN n + 1 ELSE n

\* The probe results so far, after one more: a valid result that differs from
\* the valid result before it starts a new maximal run of equal values; a
\* non-None return value of the call is a transition, and the app of the
\* transition before it was the current one until then.
See(current_app, ret) ==
    [probe |-> IF Truthy(current_app) THEN current_app ELSE seen.probe,
     failed |-> ~Truthy(current_app),
     current |-> IF ret # NoApp THEN ret ELSE seen.current,
     past |-> IF ret # NoApp /\ seen.current # NoApp
              THEN Append(seen.past, seen.current) ELSE seen.past,
     runs |-> IF Truthy(current_app) /\ current_app # seen.probe
              THEN Bump(seen.runs) ELSE seen.runs,
     transitions |-> IF ret # NoApp THEN Bump(seen.transitions) ELSE seen.transitions]


(***************************************************************************)
(* VibeOBSDaemon                                                           *)
(***************************************************************************)

\* load_config: default_config (polling_interval in tenths of a second)
default_config ==
    [obs |-> Server,
     app_scene_mappings |-> [a \in {"Emacs", "Alacritty", "Chrome"} |->
                                IF a = "Emacs" THEN "editor"
                                ELSE IF a = "Alacritty" THEN "terminal" ELSE "browser"],
     polling_interval |-> 5]

\* A parsed user file: the keys it gives, per section.
UserConfig(o, m, p) == [obs |-> o, app_scene_mappings |-> m, top |-> p]

Nothing == [x \in {} |-> ""]

\* What the configuration file may hold: nothing, text that is not YAML, or
\* a mapping giving some of the keys (the last one a polling interval that
\* time.sleep refuses).
FileContents ==
    { [kind |-> "empty", user |-> UserConfig(Nothing, Nothing, Nothing)],
      [kind |-> "broken", user |-> UserConfig(Nothing, Nothing, Nothing)],
      [kind |-> "yaml", user |-> UserConfig(Nothing, [a \in {"Finder"} |-> "terminal"], Nothing)],
      [kind |-> "yaml", user |-> UserConfig([k \in {"password"} |-> "secret"], Nothing, Nothing)],
      [kind |-> "yaml", user |-> UserConfig(Nothing, Nothing, [k \in {"polling_interval"} |-> 10])],
      [kind |-> "yaml", user |-> UserConfig(Nothing, Nothing, [k \in {"polling_interval"} |-> -10])] }

\* The file is edited at most this many times.
MaxEdits == 1

\* self.config_mtime = None
NoMtime == -1

\* dict.update: the keys of new over those of old
Updated(old, new) ==
    [k \in DOMAIN old \cup DOMAIN new |-> IF k \in DOMAIN new THEN new[k] ELSE old[k]]

\* The merge loop of load_config (lines 104-108) over a fresh default_config
Merged(user) ==
    LET o == Updated([k \in {"host", "port", "password"} |-> default_config.obs[k]], user.obs)
    IN  [obs |-> [host |-> o["host"], port |-> o["port"], password |-> o["password"]],
         app_scene_mappings |-> Updated(default_config.app_scene_mappings, user.app_scene_mappings),
         polling_interval |-> IF "polling_interval" \in DOMAIN user.top
                              THEN user.top["polling_interval"]
                              ELSE default_config.polling_interval]

\* VibeOBSDaemon.load_config on a file that exists: None on a parse error,
\* the defaults (path not recorded) for an empty file, else the merge.
LoadConfig(content) ==
    IF content.kind = "broken"
    THEN [ok |-> FALSE, config |-> default_config, found |-> FALSE]
    ELSE IF content.kind = "empty"
         THEN [ok |-> TRUE, config |-> default_config, found |-> FALSE]
         ELSE [ok |-> TRUE, config |-> Merged(content.user), found |-> TRUE]

\* A run of a daemon method: the object, the remote, the transport requests,
\* the switch_scene calls made, the value returned.
DRun(d, r) == [d |-> d, remote |-> r, log |-> <<>>, calls |-> <<>>, ret |-> "None"]

\* load_and_apply_config not recording the modification time of the file
LoadAndApplyConfigKeepsMtime(s, content, mtime) ==
    LET new == LoadConfig(content)
        old_obs == s.d.config.obs
        new_obs == new.config.obs
        a == [s EXCEPT !.d.config = new.config,
                       !.d.actual_config_path = s.d.actual_config_path \/ new.found]
        changed == \/ old_obs.host # new_obs.host
                   \/ old_obs.port # new_obs.port
                   \/ old_obs.password # new_obs.password
    IN  IF ~new.ok
        THEN [s EXCEPT !.ret = "False"]
        ELSE IF s.d.obs_client # NoClient /\ changed
             THEN IF s.remote.link
                  THEN [a EXCEPT !.log = Append(s.log, Req("disconnect", s.d.obs_client, TRUE)),
                                 !.d.obs_client = NoClient,
                                 !.remote.link = FALSE,
                                 !.ret = "True"]
                  ELSE [a EXCEPT !.log = Append(s.log, Req("disconnect", s.d.obs_client, FALSE)),
                                 !.ret = "True"]
             ELSE [a EXCEPT !.ret = "True"]

\* VibeOBSDaemon.load_and_apply_config, the file holding content at time mtime
LoadAndApplyConfig(s, content, mtime) ==
    LET new == LoadConfig(content)
        old_obs == s.d.config.obs
        new_obs == new.config.obs
        path == s.d.actual_config_path \/ new.found
        a == [s EXCEPT !.d.config = new.config,
                       !.d.actual_config_path = path,
                       !.d.config_mtime = IF path THEN mtime ELSE s.d.config_mtime]
        changed == \/ old_obs.host # new_obs.host
                   \/ old_obs.port # new_obs.port
                   \/ old_obs.password # new_obs.password
    IN  IF ~new.ok
        THEN [s EXCEPT !.ret = "False"]
        ELSE IF s.d.obs_client # NoClient /\ changed
             THEN IF s.remote.link
                  THEN [a EXCEPT !.log = Append(s.log, Req("disconnect", s.d.obs_client, TRUE)),
                                 !.d.obs_client = NoClient,
                                 !.remote.link = FALSE,
                                 !.ret = "True"]
                  ELSE [a EXCEPT !.log = Append(s.log, Req("disconnect", s.d.obs_client, FALSE)),
                                 !.ret = "True"]
             ELSE [a EXCEPT !.ret = "True"]

\* VibeOBSDaemon.check_config_changes
CheckConfigChanges(s, content, mtime) ==
    IF s.d.actual_config_path /\ mtime # s.d.config_mtime
    THEN LoadAndApplyConfig(s, content, mtime)
    ELSE s

\* VibeOBSDaemon.connect_to_obs
ConnectToObs(s) ==
    IF s.remote.up /\ s.d.config.obs = Server
    THEN [s EXCEPT !.d.obs_client = s.d.config.obs,
                   !.remote.link = TRUE,
                   !.log = Append(s.log, Req("connect", s.d.config.obs, TRUE)),
                   !.d.reconnect_attempts = 0,
                   !.ret = "True"]
    ELSE [s EXCEPT !.d.obs_client = NoClient,
                   !.remote.link = FALSE,
                   !.log = Append(s.log, Req("connect", s.d.config.obs, FALSE)),
                   !.ret = "False"]

\* The try block of VibeOBSDaemon.switch_scene (lines 218-236)
ListAndSwitch(s, scene_name) ==
    IF ~s.remote.link
    THEN [s EXCEPT !.log = Append(s.log, Req("GetSceneList", s.d.obs_client, FALSE)),
                   !.d.obs_client = NoClient,
                   !.ret = "False"]
    ELSE IF scene_name \notin s.remote.scenes
         THEN [s EXCEPT !.log = Append(s.log, Req("GetSceneList", s.d.obs_client, TRUE)),
                        !.ret = "False"]
         ELSE [s EXCEPT !.log = s.log \o <<Req("GetSceneList", s.d.obs_client, TRUE),
                                           Req("SetCurrentProgramScene", s.d.obs_client, TRUE)>>,
                        !.ret = "True"]

\* VibeOBSDaemon.switch_scene
DaemonSwitchScene(s, scene_name) ==
    LET e == [s EXCEPT !.calls = Append(s.calls, scene_name)]
    IN  IF e.d.obs_client = NoClient
        THEN LET c == ConnectToObs(e)
             IN  IF c.ret = "False" THEN c ELSE ListAndSwitch(c, scene_name)
        ELSE ListAndSwitch(e, scene_name)

\* the poll of the loop storing the app only once its scene is switched to
OnProbeRetriesFailed(s, current_app) ==
    IF Truthy(current_app) /\ current_app # s.d.last_active_app
    THEN LET n == [s EXCEPT !.d.last_active_app = current_app]
         IN  IF current_app \in DOMAIN s.d.config.app_scene_mappings
             THEN LET r == DaemonSwitchScene(s, s.d.config.app_scene_mappings[current_app])
                  IN  IF r.ret = "False"
                      THEN [r EXCEPT !.d.reconnect_attempts = r.d.reconnect_attempts + 1]
                      ELSE [r EXCEPT !.d.last_active_app = current_app]
             ELSE n
    ELSE s

\* the poll of the loop not counting a failed switch_scene
OnProbeUncounted(s, current_app) ==
    IF Truthy(current_app) /\ current_app # s.d.last_active_app
    THEN LET n == [s EXCEPT !.d.last_active_app = current_app]
         IN  IF current_app \in DOMAIN n.d.config.app_scene_mappings
             THEN DaemonSwitchScene(n, n.d.config.app_scene_mappings[current_app])
             ELSE n
    ELSE s

\* the poll of the loop acting on every valid probe, changed or not
OnProbeEveryPoll(s, current_app) ==
    IF Truthy(current_app)
    THEN LET n == [s EXCEPT !.d.last_active_app = current_app]
         IN  IF current_app \in DOMAIN n.d.config.app_scene_mappings
             THEN LET r == DaemonSwitchScene(n, n.d.config.app_scene_mappings[current_app])
                  IN  IF r.ret = "False"
                      THEN [r EXCEPT !.d.reconnect_attempts = r.d.reconnect_attempts + 1]
                      ELSE r
             ELSE n
    ELSE s

\* Lines 267-283 of run: the probe result current_app acted upon
OnProbe(s, current_app) ==
    IF Truthy(current_app) /\ current_app # s.d.last_active_app
    THEN LET n == [s EXCEPT !.d.last_active_app = current_app]
         IN  IF current_app \in DOMAIN n.d.config.app_scene_mappings
             THEN LET r == DaemonSwitchScene(n, n.d.config.app_scene_mappings[current_app])
                  IN  IF r.ret = "False"
                      THEN [r EXCEPT !.d.reconnect_attempts = r.d.reconnect_attempts + 1]
                      ELSE r
             ELSE n
    ELSE s

\* One iteration of the while loop of run (lines 261-285); due: the 2 s since
\* the last configuration check have passed.
LoopBody(s, due, content, mtime, current_app) ==
    OnProbe(IF due THEN CheckConfigChanges(s, content, mtime) ELSE s, current_app)

\* time.sleep(1) of the except branch of the loop, in tenths of a second
back_off == 10

\* the end of an iteration without the except branch: the exception ends run
SleepUncaught(d) ==
    IF d.config.polling_interval >= 0
    THEN [slept |-> d.config.polling_interval, caught |-> FALSE, ends |-> FALSE]
    ELSE [slept |-> 0, caught |-> FALSE, ends |-> TRUE]

\* The end of an iteration (lines 285-292): time.sleep(polling_interval), and
\* the except branch of the loop when it raises ValueError on a negative length.
Sleep(d) ==
    IF d.config.polling_interval >= 0
    THEN [slept |-> d.config.polling_interval, caught |-> FALSE, ends |-> FALSE]
    ELSE [slept |-> back_off, caught |-> TRUE, ends |-> FALSE]

\* No sleep: a step outside the loop.
NoSleep == [slept |-> 0, caught |-> FALSE, ends |-> FALSE]

\* the cleanup leaving the connection open
CleanupKeepsConnection(s) == s

\* The cleanup after the loop (lines 294-300): the client object is kept.
Cleanup(s) ==
    IF s.d.obs_client # NoClient
    THEN [s EXCEPT !.log = Append(s.log, Req("disconnect", s.d.obs_client, s.remote.link)),
                   !.remote.link = FALSE]
    ELSE s

\* VibeOBSDaemon.__init__ with the file holding content at time mtime
NewDaemon(content, mtime) ==
    LET c == LoadConfig(content)
    IN  [running |-> TRUE, pc |-> "created", config |-> c.config,
         actual_config_path |-> c.found,
         config_mtime |-> IF c.found THEN mtime ELSE NoMtime,
         obs_client |-> NoClient, last_active_app |-> NoApp, reconnect_attempts |-> 0]

\* No daemon step made yet, or the remote or the file moved since.
NoTick ==
    [op |-> "none", probe |-> NoApp, due |-> FALSE, calls |-> <<>>, log |-> <<>>,
     ret |-> "None", slept |-> 0, caught |-> FALSE, reloaded |-> FALSE, counted |-> FALSE,
     pre |-> [last_active_app |-> NoApp, obs_client |-> NoClient, pending |-> FALSE],
     before |-> NoApp]

\* No poll made yet.
NoTally == [probe |-> NoApp, mapped |-> 0, switched |-> 0, pending |-> FALSE, reloads |-> 0]

\* The daemon is not part of this machine.
DaemonUnused ==
    /\ daemon = NewDaemon([kind |-> "empty", user |-> UserConfig(Nothing, Nothing, Nothing)], 0)
    /\ file = [content |-> [kind |-> "empty", user |-> UserConfig(Nothing, Nothing, Nothing)],
               mtime |-> 0]
    /\ tick = NoTick
    /\ tally = NoTally

(***************************************************************************)
(* ConfigManager                                                           *)
(***************************************************************************)

\* ConfigManager.DEFAULT_CONFIG as the class body builds it (polling_interval
\* in tenths of a second; log_level and log_file, which are strings no load
\* shares, left out)
DEFAULT_CONFIG ==
    [obs |-> [host |-> "localhost", port |-> 4455, password |-> ""],
     app_scene_mappings |-> [a \in {"Emacs", "Alacritty", "Chrome"} |->
                                IF a = "Emacs" THEN "editor"
                                ELSE IF a = "Alacritty" THEN "terminal" ELSE "browser"],
     polling_interval |-> 5]

\* What the file given to a ConfigManager may hold: nothing, text that is
\* not YAML, mappings for further apps, a polling interval, and two files
\* _validate_config refuses (a port out of range; a mapping for Emacs next
\* to a polling interval that is not positive).
ConfigFiles ==
    { [kind |-> "empty", user |-> UserConfig(Nothing, Nothing, Nothing)],
      [kind |-> "broken", user |-> UserConfig(Nothing, Nothing, Nothing)],
      [kind |-> "yaml", user |-> UserConfig(Nothing, [a \in {"Finder"} |-> "terminal"], Nothing)],
      [kind |-> "yaml", user |-> UserConfig(Nothing, [a \in {"Slack"} |-> "browser"], Nothing)],
      [kind |-> "yaml", user |-> UserConfig(Nothing, Nothing, [k \in {"polling_interval"} |-> 10])],
      [kind |-> "yaml", user |-> UserConfig([k \in {"port"} |-> 0], Nothing, Nothing)],
      [kind |-> "yaml", user |-> UserConfig(Nothing, [a \in {"Emacs"} |-> "browser"],
                                            [k \in {"polling_interval"} |-> 0])] }

\* The file is saved at most this many times.
MaxSaves == 2

\* dict.copy() is shallow: the "obs" and "app_scene_mappings" of a copy of
\* DEFAULT_CONFIG are the two dict objects of the class attribute itself,
\* so a configuration holds its own top-level keys and, for the two
\* sections, this reference to the object in cm.DEFAULT_CONFIG.
SectionOfClass == "DEFAULT_CONFIG"

\* self.config = {}
NoConfig == [keys |-> FALSE, obs |-> SectionOfClass, app_scene_mappings |-> SectionOfClass,
             polling_interval |-> 0]

\* self.DEFAULT_CONFIG.copy()
CopyOfDefaults(c) ==
    [keys |-> TRUE, obs |-> SectionOfClass, app_scene_mappings |-> SectionOfClass,
     polling_interval |-> c.DEFAULT_CONFIG.polling_interval]

\* ConfigManager.__init__, in a process that has loaded nothing yet
NewConfigManager ==
    [DEFAULT_CONFIG |-> DEFAULT_CONFIG,
     config |-> NoConfig,
     actual_config_path |-> FALSE,
     config_mtime |-> NoMtime]

\* No ConfigManager call made yet.
NoCall == [op |-> "", ret |-> "None", config |-> NoConfig, defaults |-> DEFAULT_CONFIG]

\* The configuration a consumer reads from config (ConfigManager.get follows
\* the keys into the section objects): the sections as they are now. An
\* empty config has no keys; its sections here are never read.
Values(c, config) ==
    [keys |-> config.keys,
     obs |-> IF config.keys THEN c.DEFAULT_CONFIG.obs ELSE DEFAULT_CONFIG.obs,
     app_scene_mappings |-> IF config.keys THEN c.DEFAULT_CONFIG.app_scene_mappings
                            ELSE DEFAULT_CONFIG.app_scene_mappings,
     polling_interval |-> config.polling_interval]

\* ConfigManager._validate_config of a merged copy: both sections are dicts
\* with host and port here, so the port range and the interval decide.
ValidateConfig(c, config) ==
    /\ c.DEFAULT_CONFIG.obs.port >= 1
    /\ c.DEFAULT_CONFIG.obs.port <= 65535
    /\ config.polling_interval > 0

\* ConfigManager._load_from_file: None for an empty or unparsable file;
\* else the merge loop (config[key].update(value) on the section objects of
\* the class attribute, config[key] = value on the copy), then validation.
LoadFromFile(c, content) ==
    IF content.kind # "yaml"
    THEN [c |-> c, ok |-> FALSE, config |-> NoConfig]
    ELSE LET user == content.user
             o == Updated(c.DEFAULT_CONFIG.obs, user.obs)
             merged == [c EXCEPT !.DEFAULT_CONFIG.obs =
                                     [host |-> o["host"], port |-> o["port"], password |-> o["password"]],
                                 !.DEFAULT_CONFIG.app_scene_mappings =
                                     Updated(c.DEFAULT_CONFIG.app_scene_mappings, user.app_scene_mappings)]
             config == [CopyOfDefaults(c) EXCEPT !.polling_interval =
                                                     IF "polling_interval" \in DOMAIN user.top
                                                     THEN user.top["polling_interval"]
                                                     ELSE c.DEFAULT_CONFIG.polling_interval]
         IN  [c |-> merged, ok |-> ValidateConfig(merged, config), config |-> config]

\* ConfigManager.load with no config.yaml next to the module and the file
\* at config_path holding content at time mtime
Load(c, content, mtime) ==
    LET new == LoadFromFile(c, content)
    IN  IF new.ok
        THEN [c |-> [new.c EXCEPT !.actual_config_path = TRUE,
                                  !.config_mtime = mtime,
                                  !.config = new.config],
              ret |-> "config"]
        ELSE [c |-> [new.c EXCEPT !.config = CopyOfDefaults(new.c)], ret |-> "config"]

\* ConfigManager.has_changed
HasChanged(c, mtime) ==
    IF ~c.actual_config_path
    THEN [c |-> c, ret |-> "False"]
    ELSE [c |-> c, ret |-> IF mtime # c.config_mtime THEN "True" ELSE "False"]

\* ConfigManager.reload
Reload(c, content, mtime) ==
    IF ~c.actual_config_path
    THEN [c |-> c, ret |-> "False"]
    ELSE LET new == LoadFromFile(c, content)
         IN  IF new.ok
             THEN [c |-> [new.c EXCEPT !.config = new.config, !.config_mtime = mtime],
                   ret |-> "True"]
             ELSE [c |-> new.c, ret |-> "False"]

\* The configuration loader is not part of this machine.
ConfigUnused ==
    /\ cm = NewConfigManager
    /\ cfg = NoCall

(***************************************************************************)
(* The daemon as a state machine                                           *)
(***************************************************************************)

\* A step of the remote or of the file system: the objects stay as they are.
EnvFrame ==
    /\ last' = Idle
    /\ tick' = NoTick
    /\ UNCHANGED <<obs, streak, wm, poll, seen, daemon, tally, cm, cfg>>

DaemonFrame == UNCHANGED <<obs, last, streak, wm, poll, seen, cm, cfg>>

\* The scene an app maps to in a configuration, "" for none (the lookup of lines 274-275).
Resolve(config, app) ==
    IF app \in DOMAIN config.app_scene_mappings THEN config.app_scene_mappings[app] ELSE ""

\* The polls so far, after one more: a valid result that differs from the
\* valid result before it is a focus transition; it is a mapped one when the
\* configuration in force maps the app to a scene.
Tally(current_app, scene, calls, ret, reloaded) ==
    [probe |-> IF Truthy(current_app) THEN current_app ELSE tally.probe,
     mapped |-> IF Truthy(current_app) /\ current_app # tally.probe /\ scene # ""
                THEN Bump(tally.mapped) ELSE tally.mapped,
     switched |-> IF calls # <<>> THEN Bump(tally.switched) ELSE tally.switched,
     pending |-> IF Truthy(current_app) /\ current_app # tally.probe
                 THEN calls # <<>> /\ ret = "False"
                 ELSE tally.pending,
     reloads |-> IF reloaded THEN Bump(tally.reloads) ELSE tally.reloads]

DaemonCommit(op, s, current_app, due, reloaded, z) ==
    /\ s.d.reconnect_attempts <= MaxAttempts
    /\ daemon' = [s.d EXCEPT !.pc = IF z.ends THEN "crashed" ELSE s.d.pc]
    /\ remote' = s.remote
    /\ tick' = [op |-> op, probe |-> current_app, due |-> due, calls |-> s.calls,
                log |-> s.log, ret |-> s.ret, slept |-> z.slept, caught |-> z.caught,
                reloaded |-> reloaded,
                counted |-> s.d.reconnect_attempts = daemon.reconnect_attempts + 1,
                pre |-> [last_active_app |-> daemon.last_active_app,
                         obs_client |-> daemon.obs_client,
                         pending |-> tally.pending],
                before |-> tally.probe]
    /\ UNCHANGED file
    /\ DaemonFrame

\* run up to the loop: the initial connection (lines 249-258)
DaemonStart ==
    /\ daemon.pc = "created"
    /\ LET s == ConnectToObs(DRun(daemon, remote))
       IN  DaemonCommit("start", [s EXCEPT !.d.pc = "loop"], NoApp, FALSE, FALSE, NoSleep)
    /\ UNCHANGED tally

\* One iteration of the loop, the probe returning current_app
DaemonTick ==
    /\ daemon.pc = "loop"
    /\ daemon.running
    /\ \E current_app \in Apps \cup {NoApp}, due \in BOOLEAN :
          LET s == LoopBody(DRun(daemon, remote), due, file.content, file.mtime, current_app)
              reloaded == /\ due
                          /\ CheckConfigChanges(DRun(daemon, remote), file.content, file.mtime).ret
                                = "True"
          IN  /\ DaemonCommit("tick", s, current_app, due, reloaded, Sleep(s.d))
              /\ tally' = Tally(current_app, Resolve(s.d.config, current_app), s.calls, s.ret,
                                reloaded)

\* The loop condition found false: cleanup, and run returns
DaemonExit ==
    /\ daemon.pc = "loop"
    /\ ~daemon.running
    /\ LET s == Cleanup(DRun(daemon, remote))
       IN  DaemonCommit("exit", [s EXCEPT !.d.pc = "stopped"], NoApp, FALSE, FALSE, NoSleep)
    /\ UNCHANGED tally

\* VibeOBSDaemon.handle_signal
HandleSignal ==
    /\ daemon.pc # "stopped"
    /\ daemon.running
    /\ daemon' = [daemon EXCEPT !.running = FALSE]
    /\ tick' = [NoTick EXCEPT !.op = "signal"]
    /\ UNCHANGED <<remote, file, tally>>
    /\ DaemonFrame

\* The user saves the configuration file.
EditFile ==
    /\ file.mtime < MaxEdits
    /\ \E c \in FileContents : file' = [content |-> c, mtime |-> file.mtime + 1]
    /\ UNCHANGED remote
    /\ EnvFrame

InitDaemon ==
    /\ file \in [content : {c \in FileContents : c.kind # "broken"}, mtime : {0}]
    /\ daemon = NewDaemon(file.content, file.mtime)
    /\ remote \in [up : BOOLEAN, scenes : SUBSET Scenes, link : {FALSE}]
    /\ tick = NoTick
    /\ tally = NoTally
    /\ obs = [config |-> Server, client |-> NoClient, available_scenes |-> {},
              reconnect_attempts |-> 0]
    /\ last = Idle
    /\ streak = [connect |-> 0, reset |-> 0]
    /\ wm = NewMonitor
    /\ poll = NoPoll
    /\ seen = NothingSeen
    /\ ConfigUnused

(***************************************************************************)
(* The monitor as a state machine                                          *)
(***************************************************************************)

WMFrame == UNCHANGED <<obs, remote, last, streak, daemon, file, tick, tally, cm, cfg>>

DoCheckAndNotify ==
    \E current_app \in ProbeResults, raising \in SUBSET Subscribers :
        LET c == CheckAndNotify(wm, current_app, raising)
        IN  /\ Len(See(current_app, c.ret).past) <= MaxPast
            /\ wm' = c.m
            /\ poll' = [op |-> "check_and_notify", arg |-> "", probe |-> current_app,
                        ret |-> c.ret, calls |-> c.calls, pre |-> wm,
                        before |-> [probe |-> seen.probe, current |-> seen.current,
                                    failed |-> seen.failed]]
            /\ seen' = See(current_app, c.ret)
            /\ WMFrame

DoRegisterCallback ==
    \E callback \in Subscribers :
        /\ wm' = RegisterCallback(wm, callback)
        /\ poll' = [NoPoll EXCEPT !.op = "register_callback", !.arg = callback, !.pre = wm]
        /\ UNCHANGED seen
        /\ WMFrame

DoUnregisterCallback ==
    \E callback \in Subscribers :
        /\ wm' = UnregisterCallback(wm, callback)
        /\ poll' = [NoPoll EXCEPT !.op = "unregister_callback", !.arg = callback, !.pre = wm]
        /\ UNCHANGED seen
        /\ WMFrame

\* reset starts the monitor, and with it the sequence of probe results, afresh.
DoReset ==
    /\ wm' = Reset(wm)
    /\ poll' = [NoPoll EXCEPT !.op = "reset", !.pre = wm]
    /\ seen' = [seen EXCEPT !.probe = NoApp, !.failed = FALSE, !.current = NoApp, !.past = <<>>]
    /\ WMFrame

InitWM ==
    /\ wm = NewMonitor
    /\ poll = NoPoll
    /\ seen = NothingSeen
    /\ obs = [config |-> Server, client |-> NoClient, available_scenes |-> {},
              reconnect_attempts |-> 0]
    /\ remote = [up |-> FALSE, scenes |-> {}, link |-> FALSE]
    /\ last = Idle
    /\ streak = [connect |-> 0, reset |-> 0]
    /\ DaemonUnused
    /\ ConfigUnused

NextWM ==
    \/ DoCheckAndNotify
    \/ DoRegisterCallback
    \/ DoUnregisterCallback
    \/ DoReset

SpecWM == InitWM /\ [][NextWM]_vars

(***************************************************************************)
(* The controller and its remote as a state machine                        *)
(***************************************************************************)

\* What the last operation was, with the state it started from.
Done(op, arg, s) ==
    [op |-> op, arg |-> arg, ret |-> s.ret, log |-> s.log,
     pre |-> [client |-> obs.client, available_scenes |-> obs.available_scenes,
              reconnect_attempts |-> obs.reconnect_attempts, config |-> obs.config,
              link |-> remote.link]]

Entry == Run(obs, remote, <<>>, "None")

\* The streak after an operation that made the transport requests lg.
Streak(n, lg) ==
    IF \E i \in 1..Len(lg) : lg[i].req = "connect" /\ lg[i].ok
    THEN 0
    ELSE n + Len(SelectSeq(lg, LAMBDA e : e.req = "connect" /\ ~e.ok))

Commit(op, arg, s) ==
    /\ s.obs.reconnect_attempts <= MaxAttempts
    /\ Streak(streak.connect, s.log) <= MaxAttempts
    /\ obs' = s.obs
    /\ remote' = s.remote
    /\ last' = Done(op, arg, s)
    /\ streak' = [connect |-> Streak(streak.connect, s.log),
                  reset |-> IF op = "reset_reconnect_counter" THEN 0
                            ELSE Streak(streak.reset, s.log)]
    /\ UNCHANGED <<wm, poll, seen, daemon, file, tick, tally, cm, cfg>>

\* OBSController.__init__
InitOBS ==
    /\ obs \in [config : Endpoints, client : {NoClient}, available_scenes : {{}},
                reconnect_attempts : {0}]
    /\ remote \in [up : BOOLEAN, scenes : SUBSET Scenes, link : {FALSE}]
    /\ last = Idle
    /\ streak = [connect |-> 0, reset |-> 0]
    /\ wm = NewMonitor
    /\ poll = NoPoll
    /\ seen = NothingSeen
    /\ DaemonUnused
    /\ ConfigUnused

DoConnect == Commit("connect", "", Connect(Entry))

DoDisconnect == Commit("disconnect", "", Disconnect(Entry))

DoSwitchScene == \E n \in Scenes : Commit("switch_scene", n, SwitchScene(Entry, n))

DoGetCurrentScene == Commit("get_current_scene", "", GetCurrentScene(Entry))

DoGetAvailableScenes == Commit("get_available_scenes", "", GetAvailableScenes(Entry))

DoUpdateConfig == \E c \in Endpoints : Commit("update_config", "", UpdateConfig(Entry, c))

DoResetReconnectCounter == Commit("reset_reconnect_counter", "", ResetReconnectCounter(Entry))

DoGetStats == Commit("get_stats", "", GetStats(Entry))

\* The remote and the link change between calls of the controller and between
\* steps of the daemon, not in the middle of one.

\* The remote becomes unreachable; a held connection dies with it.
RemoteDown ==
    /\ remote.up
    /\ remote' = [remote EXCEPT !.up = FALSE, !.link = FALSE]
    /\ UNCHANGED file
    /\ EnvFrame

\* The remote becomes reachable again.
RemoteUp ==
    /\ ~remote.up
    /\ remote' = [remote EXCEPT !.up = TRUE]
    /\ UNCHANGED file
    /\ EnvFrame

\* The held connection drops silently while the remote stays up.
LinkDrop ==
    /\ remote.link
    /\ remote' = [remote EXCEPT !.link = FALSE]
    /\ UNCHANGED file
    /\ EnvFrame

\* The operator of the remote adds or removes a scene.
SceneEdit ==
    /\ \E n \in Scenes :
          remote' = [remote EXCEPT !.scenes =
                        IF n \in remote.scenes THEN remote.scenes \ {n}
                                               ELSE remote.scenes \cup {n}]
    /\ UNCHANGED file
    /\ EnvFrame

NextOBS ==
    \/ DoConnect
    \/ DoDisconnect
    \/ DoSwitchScene
    \/ DoGetCurrentScene
    \/ DoGetAvailableScenes
    \/ DoUpdateConfig
    \/ DoResetReconnectCounter
    \/ DoGetStats
    \/ RemoteDown
    \/ RemoteUp
    \/ LinkDrop
    \/ SceneEdit

SpecOBS == InitOBS /\ [][NextOBS]_vars

NextDaemon ==
    \/ DaemonStart
    \/ DaemonTick
    \/ DaemonExit
    \/ HandleSignal
    \/ EditFile
    \/ RemoteDown
    \/ RemoteUp
    \/ LinkDrop
    \/ SceneEdit

SpecDaemon == InitDaemon /\ [][NextDaemon]_vars

(***************************************************************************)
(* The configuration loader as a state machine                             *)
(***************************************************************************)

ConfigFrame == UNCHANGED <<obs, remote, last, streak, wm, poll, seen, daemon, tick, tally>>

\* A call of the loader: the object and the class attribute as the call
\* leaves them, the call recorded with what a consumer read at entry.
ConfigCommit(op, r) ==
    /\ cm' = r.c
    /\ cfg' = [op |-> op, ret |-> r.ret, config |-> Values(cm, cm.config),
               defaults |-> cm.DEFAULT_CONFIG]
    /\ UNCHANGED file
    /\ ConfigFrame

DoLoad == ConfigCommit("load", Load(cm, file.content, file.mtime))

DoHasChanged == ConfigCommit("has_changed", HasChanged(cm, file.mtime))

DoReload == ConfigCommit("reload", Reload(cm, file.content, file.mtime))

\* The user saves the file.
SaveFile ==
    /\ file.mtime < MaxSaves
    /\ \E c \in ConfigFiles : file' = [content |-> c, mtime |-> file.mtime + 1]
    /\ cfg' = [NoCall EXCEPT !.config = Values(cm, cm.config), !.defaults = cm.DEFAULT_CONFIG]
    /\ UNCHANGED cm
    /\ ConfigFrame

InitConfig ==
    /\ file \in [content : ConfigFiles, mtime : {0}]
    /\ cm = NewConfigManager
    /\ cfg = NoCall
    /\ daemon = NewDaemon([kind |-> "empty", user |-> UserConfig(Nothing, Nothing, Nothing)], 0)
    /\ tick = NoTick
    /\ tally = NoTally
    /\ obs = [config |-> Server, client |-> NoClient, available_scenes |-> {},
              reconnect_attempts |-> 0]
    /\ remote = [up |-> FALSE, scenes |-> {}, link |-> FALSE]
    /\ last = Idle
    /\ streak = [connect |-> 0, reset |-> 0]
    /\ wm = NewMonitor
    /\ poll = NoPoll
    /\ seen = NothingSeen

NextConfig ==
    \/ DoLoad
    \/ DoHasChanged
    \/ DoReload
    \/ SaveFile

SpecConfig == InitConfig /\ [][NextConfig]_vars

(***************************************************************************)
(* Properties of the controller                                            *)
(***************************************************************************)

SetRequests == Sent(last.log, "SetCurrentProgramScene")

ListRequests == Sent(last.log, "GetSceneList")

ConnectSucceeded == \E i \in 1..Len(last.log) : last.log[i].req = "connect" /\ last.log[i].ok

ConnectFailed == \E i \in 1..Len(last.log) : last.log[i].req = "connect" /\ ~last.log[i].ok

\* C1: every set-current-scene request goes over a present client object; a
\* switch_scene entered without one makes a connect attempt before anything
\* else, and sends no set-current-scene request when that attempt fails.
C1_ReconnectBeforeSwitch ==
    /\ \A i \in 1..Len(last.log) :
          last.log[i].req = "SetCurrentProgramScene" => last.log[i].via # NoClient
    /\ (last.op = "switch_scene" /\ last.pre.client = NoClient) =>
          /\ Len(last.log) >= 1
          /\ last.log[1].req = "connect"
          /\ (~last.log[1].ok => SetRequests = <<>> /\ last.ret = "False")

C1_Witness ==
    /\ last.op = "switch_scene"
    /\ last.pre.client = NoClient
    /\ last.arg \in last.pre.available_scenes
    /\ ConnectFailed
    /\ SetRequests = <<>>

\* C5 as stated: a successful connect leaves the counter at 0, and the counter
\* is lower after an operation than before it only if the operation connected
\* successfully.
C5_Original ==
    /\ ConnectSucceeded => obs.reconnect_attempts = 0
    /\ (last.op # "none" /\ obs.reconnect_attempts < last.pre.reconnect_attempts)
          => ConnectSucceeded

\* C5 amended: a successful connect leaves the counter at 0, and the counter is
\* lower after an operation than before it only if the operation connected
\* successfully or was reset_reconnect_counter (which sets it to 0).
C5_ResetOnSuccessOnly ==
    /\ ConnectSucceeded => obs.reconnect_attempts = 0
    /\ (last.op # "none" /\ obs.reconnect_attempts < last.pre.reconnect_attempts)
          => \/ ConnectSucceeded
             \/ last.op = "reset_reconnect_counter" /\ obs.reconnect_attempts = 0

C5_Witness ==
    /\ last.op = "switch_scene"
    /\ last.pre.reconnect_attempts >= 2
    /\ ConnectSucceeded
    /\ obs.reconnect_attempts = 0

\* C6 as stated: the counter equals the number of failed connect attempts made
\* since the last successful connect (or construction), by whichever operation.
C6_Original == obs.reconnect_attempts = streak.connect

\* C6 amended: the counter equals the number of failed connect attempts made
\* since the last successful connect, the last reset_reconnect_counter or
\* construction, whichever came last; so it is 0 right after a successful connect.
C6_CountsConsecutiveFailures ==
    /\ obs.reconnect_attempts = streak.reset
    /\ ConnectSucceeded => obs.reconnect_attempts = 0

C6_Witness ==
    /\ last.op = "update_config"
    /\ ConnectFailed
    /\ streak.reset = 3
    /\ obs.reconnect_attempts = 3

\* C7: at or above the ceiling, connect and switch_scene on a session without a
\* client still make a connect attempt, and against a reachable remote that
\* attempt succeeds, leaves a client and sets the counter to 0.
C7_CeilingIsAdvisory ==
    (/\ last.op \in {"connect", "switch_scene"}
     /\ last.pre.client = NoClient
     /\ last.pre.reconnect_attempts >= max_reconnect_attempts)
    => /\ Len(last.log) >= 1
       /\ last.log[1].req = "connect"
       /\ TransportAccepts(obs, remote) =>
             /\ last.log[1].ok
             /\ obs.client # NoClient
             /\ obs.reconnect_attempts = 0

C7_Witness ==
    /\ last.op = "switch_scene"
    /\ last.pre.client = NoClient
    /\ last.pre.reconnect_attempts >= max_reconnect_attempts
    /\ ConnectSucceeded
    /\ obs.reconnect_attempts = 0

\* C8: switch_scene(name) with a client present, name neither in the cache nor
\* in the remote's inventory: one list-scenes request is made (answered, it
\* makes the cache the remote's inventory), the call returns False and no
\* set-current-scene request is sent.
C8_SceneNotFound ==
    (/\ last.op = "switch_scene"
     /\ last.pre.client # NoClient
     /\ last.arg \notin last.pre.available_scenes
     /\ last.arg \notin remote.scenes)
    => /\ Len(ListRequests) = 1
       /\ ListRequests[1].ok => obs.available_scenes = remote.scenes
       /\ last.ret = "False"
       /\ SetRequests = <<>>

C8_Witness ==
    /\ last.op = "switch_scene"
    /\ last.pre.client # NoClient
    /\ last.pre.available_scenes = {}
    /\ last.arg = "editor"
    /\ remote.scenes = {"terminal"}
    /\ obs.available_scenes = {"terminal"}
    /\ last.ret = "False"

\* The connection the call works over: the held one when alive, or, without a
\* client, the one its connect attempt obtains.
Connectable ==
    IF last.pre.client = NoClient THEN TransportAccepts(obs, remote) ELSE last.pre.link

\* C9 as stated: a scene missing from the cache and present in the remote's
\* inventory is refreshed, switched to, and the call returns True.
C9_Original ==
    (/\ last.op = "switch_scene"
     /\ last.arg \notin last.pre.available_scenes
     /\ last.arg \in remote.scenes)
    => /\ ListRequests # <<>>
       /\ Len(SetRequests) = 1
       /\ last.ret = "True"

\* C9 amended: a call that ends "not found" (False, client kept, nothing
\* switched) has asked the remote for its scenes; and a scene missing from the
\* cache and present in the remote's inventory is refreshed, switched to and
\* the call returns True, provided the held connection is alive or, without a
\* client, the connect attempt succeeds.
C9_RefreshBeforeNotFound ==
    last.op = "switch_scene" =>
       /\ (last.ret = "False" /\ SetRequests = <<>> /\ ~ConnectFailed) => ListRequests # <<>>
       /\ (/\ last.arg \notin last.pre.available_scenes
           /\ last.arg \in remote.scenes
           /\ Connectable)
          => /\ ListRequests # <<>>
             /\ \A i \in 1..Len(ListRequests) : ListRequests[i].ok
             /\ last.arg \in obs.available_scenes
             /\ Len(SetRequests) = 1
             /\ SetRequests[1].ok
             /\ last.ret = "True"

C9_Witness ==
    /\ last.op = "switch_scene"
    /\ last.pre.client # NoClient
    /\ last.pre.available_scenes = {"terminal"}
    /\ last.arg = "editor"
    /\ remote.scenes = {"editor", "terminal"}
    /\ last.ret = "True"

\* C10 as stated: a cache hit makes the set-current-scene request and nothing
\* else; a cache miss makes exactly one list-scenes request, first, and then
\* fails or makes the set-current-scene request.
C10_Original ==
    last.op = "switch_scene" =>
       /\ last.arg \in last.pre.available_scenes =>
             /\ Len(last.log) = 1
             /\ last.log[1].req = "SetCurrentProgramScene"
       /\ last.arg \notin last.pre.available_scenes =>
             /\ Len(ListRequests) = 1
             /\ last.log[1].req = "GetSceneList"
             /\ Len(last.log) <= 2
             /\ Len(last.log) = 2 => last.log[2].req = "SetCurrentProgramScene"

\* C10 amended: the same, for a switch_scene entered with a client present.
C10_OneCallOnHitOneRefreshOnMiss ==
    (last.op = "switch_scene" /\ last.pre.client # NoClient) =>
       /\ last.arg \in last.pre.available_scenes =>
             /\ Len(last.log) = 1
             /\ last.log[1].req = "SetCurrentProgramScene"
       /\ last.arg \notin last.pre.available_scenes =>
             /\ Len(ListRequests) = 1
             /\ last.log[1].req = "GetSceneList"
             /\ Len(last.log) <= 2
             /\ Len(last.log) = 2 => last.log[2].req = "SetCurrentProgramScene"

C10_Witness ==
    /\ last.op = "switch_scene"
    /\ last.pre.client # NoClient
    /\ last.arg \in last.pre.available_scenes
    /\ last.log = <<Req("SetCurrentProgramScene", Server, TRUE)>>

SetRequestFailed == \E i \in 1..Len(SetRequests) : ~SetRequests[i].ok

\* C11: a switch_scene whose set-current-scene request fails returns False and
\* leaves no client object; from there a switch_scene, whatever the scene and
\* whatever the remote has become, starts with a connect attempt.
C11_SwitchFailureClearsHandle ==
    (last.op = "switch_scene" /\ SetRequestFailed) =>
       /\ last.ret = "False"
       /\ obs.client = NoClient
       /\ \A n \in Scenes, r \in [up : BOOLEAN, scenes : SUBSET Scenes, link : {FALSE}] :
             LET next == SwitchScene(Run(obs, r, <<>>, "None"), n)
             IN  /\ Len(next.log) >= 1
                 /\ next.log[1].req = "connect"

C11_Witness ==
    /\ last.op = "switch_scene"
    /\ last.pre.client # NoClient
    /\ last.log = <<Req("SetCurrentProgramScene", Server, FALSE)>>
    /\ last.ret = "False"
    /\ obs.client = NoClient

\* C12: a switch_scene entered without a client whose connect attempt fails
\* makes that one request and no other, returns False, leaves no client object
\* and raises the counter by exactly 1.
C12_FailedConnectPropagates ==
    (last.op = "switch_scene" /\ last.pre.client = NoClient /\ ConnectFailed) =>
       /\ last.ret = "False"
       /\ Len(last.log) = 1
       /\ ListRequests = <<>>
       /\ SetRequests = <<>>
       /\ obs.client = NoClient
       /\ obs.reconnect_attempts = last.pre.reconnect_attempts + 1

C12_Witness ==
    /\ last.op = "switch_scene"
    /\ last.pre.client = NoClient
    /\ last.pre.reconnect_attempts = 2
    /\ last.log = <<Req("connect", Server, FALSE)>>
    /\ obs.reconnect_attempts = 3
    /\ obs.client = NoClient

\* C14: after disconnect() returns there is no client object and the scene
\* cache is empty, whatever the state it was called in.
C14_DisconnectClears ==
    last.op = "disconnect" =>
       /\ obs.client = NoClient
       /\ obs.available_scenes = {}

\* C15: update_config with the host, port and password it already has returns
\* True, makes no transport request, and leaves the client object, the
\* connection, the scene cache and the counter as they were.
C15_SameEndpointIsNoOp ==
    (last.op = "update_config" /\ obs.config = last.pre.config) =>
       /\ last.ret = "True"
       /\ last.log = <<>>
       /\ obs.client = last.pre.client
       /\ remote.link = last.pre.link
       /\ obs.available_scenes = last.pre.available_scenes
       /\ obs.reconnect_attempts = last.pre.reconnect_attempts

C15_Witness ==
    /\ last.op = "update_config"
    /\ obs.config = last.pre.config
    /\ last.pre.client # NoClient
    /\ last.pre.link
    /\ obs.available_scenes = {"editor", "terminal"}
    /\ last.ret = "True"
    /\ last.log = <<>>

\* C16: update_config with another host, port or password first disconnects
\* the client object held (if any), then makes one connect attempt, with the
\* new settings; it returns True when that attempt succeeded, with a client
\* for the new settings and the counter at 0, and False when it failed, with
\* no client.
C16_ChangedEndpointReconnects ==
    (last.op = "update_config" /\ obs.config # last.pre.config) =>
       LET k == IF last.pre.client # NoClient THEN 1 ELSE 0
       IN  /\ k = 1 => last.log[1] = Req("disconnect", last.pre.client, last.pre.link)
           /\ Len(last.log) > k
           /\ last.log[k + 1].req = "connect"
           /\ last.log[k + 1].via = obs.config
           /\ Len(Sent(last.log, "connect")) = 1
           /\ Len(Sent(last.log, "disconnect")) = k
           /\ last.log[k + 1].ok <=> TransportAccepts(obs, remote)
           /\ last.ret = IF last.log[k + 1].ok THEN "True" ELSE "False"
           /\ last.log[k + 1].ok => obs.client = obs.config /\ obs.reconnect_attempts = 0
           /\ ~last.log[k + 1].ok => /\ obs.client = NoClient
                                     /\ ~remote.link
                                     /\ Len(last.log) = k + 1

\* A session connected with the remote's settings is given a wrong password.
C16_Witness ==
    /\ last.op = "update_config"
    /\ last.pre.config = Server
    /\ last.pre.client = Server
    /\ last.pre.link
    /\ obs.config = [Server EXCEPT !.password = "secret"]
    /\ last.log = <<Req("disconnect", Server, TRUE), Req("connect", obs.config, FALSE)>>
    /\ last.ret = "False"
    /\ obs.client = NoClient

RequestFailed == \E i \in 1..Len(last.log) : ~last.log[i].ok

C26_StatsHasNoSideEffects ==
    last.op = "get_stats" =>
       /\ obs.client = last.pre.client
       /\ remote.link = last.pre.link
       /\ obs.available_scenes = last.pre.available_scenes
       /\ obs.reconnect_attempts = last.pre.reconnect_attempts
       /\ obs.config = last.pre.config
       /\ \A i \in 1..Len(last.log) : last.log[i].req = "GetCurrentProgramScene"
       /\ Len(last.log) = IF last.pre.client = NoClient THEN 0 ELSE 1

\* The snapshot of a session whose connection has dropped, the cache empty.
C26_Witness ==
    /\ last.op = "get_stats"
    /\ last.log = <<Req("GetCurrentProgramScene", Server, FALSE)>>
    /\ obs.client = Server
    /\ obs.available_scenes = {}
    /\ obs.reconnect_attempts = 0

\* C28: a switch_scene in which a request (the list-scenes refresh or the
\* set-current-scene request) fails leaves no client object, so that the
\* switch_scene after it starts with a connect attempt.
C28_DeadLinkClearsHandle ==
    (last.op = "switch_scene" /\ RequestFailed) =>
       /\ obs.client = NoClient
       /\ \A n \in Scenes :
             LET next == SwitchScene(Entry, n)
             IN  Len(next.log) >= 1 /\ next.log[1].req = "connect"

\* C31: at most one transport connection opened by the controller is open
\* at a time: a call (connect, switch_scene, update_config, disconnect)
\* opens a new one only after the one opened before it has been closed by
\* a transport disconnect or dropped by the remote. Here: a call entered
\* with a live connection held opens one only after an answered disconnect
\* request of the same call.
C31_OneConnectionAtATime ==
    \A i \in 1..Len(last.log) :
        (last.log[i].req = "connect" /\ last.log[i].ok /\ last.pre.link) =>
            \E j \in 1..(i - 1) : last.log[j].req = "disconnect" /\ last.log[j].ok

(***************************************************************************)
(* Properties of the monitor                                               *)
(***************************************************************************)

\* C2: check_and_notify returns an app or invokes a callback only when the
\* probed app is non-empty and differs from the stored one; a poll whose probe
\* result equals the stored app returns None, invokes nothing and leaves the
\* stored app and the history as they were.
C2_ChangeOnlyOnDifference ==
    poll.op = "check_and_notify" =>
       /\ (poll.ret # NoApp \/ poll.calls # <<>>) =>
             /\ Truthy(poll.probe)
             /\ poll.probe # poll.pre.last_active_app
             /\ poll.ret = poll.probe
       /\ poll.probe = poll.pre.last_active_app =>
             /\ poll.ret = NoApp
             /\ poll.calls = <<>>
             /\ wm.last_active_app = poll.pre.last_active_app
             /\ wm.app_history = poll.pre.app_history

C2_Witness ==
    /\ poll.op = "check_and_notify"
    /\ poll.probe = "Emacs"
    /\ poll.pre.last_active_app = "Emacs"
    /\ poll.pre.app_history = <<"Emacs", "Finder">>
    /\ Len(wm.app_change_callbacks) = 2
    /\ poll.ret = NoApp

\* C3: a poll emits a transition exactly when its result is valid and starts
\* a new maximal run of equal valid results, so transitions and runs are
\* equal in number; every callback of a transition gets, as old app, the new
\* app of the transition before (None for the first) and, as new app, the
\* probed one.
C3_OneTransitionPerRun ==
    /\ seen.runs = seen.transitions
    /\ poll.op = "check_and_notify" =>
          /\ poll.ret # NoApp <=> (Truthy(poll.probe) /\ poll.probe # poll.before.probe)
          /\ poll.ret # NoApp =>
                /\ Len(poll.calls) = Len(wm.app_change_callbacks)
                /\ \A i \in 1..Len(poll.calls) :
                      /\ poll.calls[i].old_app = poll.before.current
                      /\ poll.calls[i].new_app = poll.probe

C3_Witness ==
    /\ poll.op = "check_and_notify"
    /\ seen.transitions = 3
    /\ seen.runs = 3
    /\ poll.ret = "Emacs"
    /\ Len(poll.calls) = 2
    /\ poll.calls[1].old_app = "Finder"
    /\ poll.pre.app_history = <<"Emacs">>

\* The last n entries of a sequence, all of it when it has fewer.
LastN(q, n) == IF Len(q) > n THEN SubSeq(q, Len(q) - n + 1, Len(q)) ELSE q

\* C17: the history never holds more than 10 entries; it is the last (up to
\* 10) apps that were current before the present one, oldest first; and an
\* entry added at capacity drops the oldest entry.
C17_HistoryIsLastTen ==
    /\ Len(wm.app_history) <= max_history
    /\ wm.app_history = LastN(seen.past, max_history)
    /\ (/\ poll.op = "check_and_notify"
        /\ poll.ret # NoApp
        /\ Len(poll.pre.app_history) = max_history)
       => wm.app_history = Tail(poll.pre.app_history) \o <<poll.pre.last_active_app>>

C17_Witness ==
    /\ poll.op = "check_and_notify"
    /\ poll.ret = "Finder"
    /\ Len(poll.pre.app_history) = max_history
    /\ poll.pre.app_history[1] = "Emacs"
    /\ wm.app_history[1] = "Finder"
    /\ wm.app_history[max_history] = "Emacs"
    /\ Len(seen.past) = 12

\* C18: a check_and_notify whose probe yields no app returns None, invokes no
\* callback and leaves the monitor as it was; and when the probe before
\* yielded no app, a probe that yields the app of the last valid probe again
\* returns None, invokes no callback and leaves the monitor as it was.
C18_FailedProbeLeavesState ==
    poll.op = "check_and_notify" =>
       /\ ~Truthy(poll.probe) =>
             /\ poll.ret = NoApp
             /\ poll.calls = <<>>
             /\ wm = poll.pre
       /\ (poll.before.failed /\ Truthy(poll.probe) /\ poll.probe = poll.before.probe) =>
             /\ poll.ret = NoApp
             /\ poll.calls = <<>>
             /\ wm = poll.pre

\* Emacs, a failed probe, Emacs again: nothing is emitted.
C18_Witness ==
    /\ poll.op = "check_and_notify"
    /\ poll.before.failed
    /\ poll.before.probe = "Emacs"
    /\ poll.probe = "Emacs"
    /\ wm.last_active_app = "Emacs"
    /\ wm.app_history = <<"Finder">>
    /\ wm.app_change_callbacks = <<"on_change">>
    /\ poll.ret = NoApp
    /\ poll.calls = <<>>

\* C19: when a callback raises during the notification of a transition, every
\* registered callback has been invoked, once and in order, the call returns
\* the new app, and the stored app, the history and the callbacks are what a
\* transition leaves.
C19_RaisingSubscriberIsolated ==
    (poll.op = "check_and_notify" /\ \E i \in 1..Len(poll.calls) : poll.calls[i].raised) =>
       /\ Truthy(poll.probe)
       /\ poll.ret = poll.probe
       /\ Len(poll.calls) = Len(wm.app_change_callbacks)
       /\ \A i \in 1..Len(poll.calls) : poll.calls[i].callback = wm.app_change_callbacks[i]
       /\ wm.app_change_callbacks = poll.pre.app_change_callbacks
       /\ wm.last_active_app = poll.probe
       /\ wm.app_history = IF Truthy(poll.pre.last_active_app)
                           THEN LastN(Append(poll.pre.app_history, poll.pre.last_active_app),
                                      max_history)
                           ELSE poll.pre.app_history

\* The first of two callbacks raises; the second is invoked all the same.
C19_Witness ==
    /\ poll.op = "check_and_notify"
    /\ Len(poll.calls) = 2
    /\ poll.calls[1].raised
    /\ ~poll.calls[2].raised
    /\ poll.calls[2].callback = "on_log"
    /\ poll.ret = "Finder"
    /\ wm.last_active_app = "Finder"
    /\ wm.app_history = <<"Emacs">>

NoDuplicates(q) == \A i, j \in 1..Len(q) : q[i] = q[j] => i = j

Registered(m, callback) == \E i \in 1..Len(m.app_change_callbacks) : m.app_change_callbacks[i] = callback

\* C20: no callback is in the list twice; register_callback of a registered
\* callback and unregister_callback of an unregistered one leave the monitor
\* as it was; a transition invokes each registered callback exactly once.
C20_SetLikeMembership ==
    /\ NoDuplicates(wm.app_change_callbacks)
    /\ (poll.op = "register_callback" /\ Registered(poll.pre, poll.arg)) => wm = poll.pre
    /\ (poll.op = "register_callback" /\ ~Registered(poll.pre, poll.arg)) =>
          wm.app_change_callbacks = Append(poll.pre.app_change_callbacks, poll.arg)
    /\ (poll.op = "unregister_callback" /\ ~Registered(poll.pre, poll.arg)) => wm = poll.pre
    /\ (poll.op = "check_and_notify" /\ poll.ret # NoApp) =>
          \A c \in Subscribers :
             Len(SelectSeq(poll.calls, LAMBDA e : e.callback = c))
                = IF Registered(wm, c) THEN 1 ELSE 0

C20_Witness ==
    /\ poll.op = "register_callback"
    /\ poll.arg = "on_change"
    /\ poll.pre.app_change_callbacks = <<"on_log", "on_change">>
    /\ wm.app_change_callbacks = <<"on_log", "on_change">>

\* C32: in every state of the monitor reached by polls and resets, no two
\* adjacent entries of the history are equal, no entry is empty (or None),
\* and the last entry of a non-empty history differs from the stored
\* current app.
C32_HistoryWellFormed ==
    LET h == wm.app_history
    IN  /\ \A i \in 1..(Len(h) - 1) : h[i] # h[i + 1]
        /\ \A i \in 1..Len(h) : Truthy(h[i])
        /\ Len(h) > 0 => h[Len(h)] # wm.last_active_app

\* A full history that has evicted entries, left by a poll that saw a change.
C32_Witness ==
    /\ poll.op = "check_and_notify"
    /\ Truthy(poll.ret)
    /\ Len(wm.app_history) = max_history
    /\ Len(seen.past) > max_history

(***************************************************************************)
(* Properties of the daemon loop                                           *)
(***************************************************************************)

\* C4: an iteration of the loop calls switch_scene exactly once, with the
\* mapped scene, when its probe result is a focus transition (valid, and
\* different from the valid result before it) to an app the configuration
\* maps, and not at all otherwise; so mapped transitions and switch_scene
\* calls are equal in number.
C4_OneSwitchPerMappedTransition ==
    /\ tally.mapped = tally.switched
    /\ tick.op = "tick" =>
          tick.calls = IF /\ Truthy(tick.probe)
                          /\ tick.probe # tick.before
                          /\ Resolve(daemon.config, tick.probe) # ""
                       THEN <<Resolve(daemon.config, tick.probe)>>
                       ELSE <<>>

\* Probes Emacs.., Finder.., Emacs with only Emacs mapped: the second call.
C4_Witness ==
    /\ tick.op = "tick"
    /\ tick.before = "Finder"
    /\ tick.probe = "Emacs"
    /\ "Finder" \notin DOMAIN daemon.config.app_scene_mappings
    /\ tick.calls = <<"editor">>
    /\ tally.mapped = 2
    /\ tally.switched = 2

TickConnectFailed == \E i \in 1..Len(tick.log) : tick.log[i].req = "connect" /\ ~tick.log[i].ok

\* C29: the daemon's reconnect_attempts goes up by one exactly in the steps in
\* which a connection attempt fails, the initial one of run included, and in
\* no other step (so not when switch_scene fails over a held connection); the
\* 'max reconnection attempts' log, emitted when the counter reaches 10, then
\* follows 10 failed connection attempts.
C29_CountsFailedConnectsOnly ==
    tick.op \in {"start", "tick"} => (tick.counted <=> TickConnectFailed)

\* C30: the app is stored also when its switch_scene fails; and while the
\* switch of the last transition has failed, an iteration whose probe yields
\* the same app again, or no app, calls switch_scene not at all and makes no
\* connect, list-scenes or set-current-scene request: the switch is tried
\* again only in an iteration whose probe yields another app than the stored one.
C30_FailedSwitchIsNotRetried ==
    tick.op = "tick" =>
       /\ (tick.calls # <<>> /\ tick.ret = "False") => daemon.last_active_app = tick.probe
       /\ tick.pre.pending => tick.pre.last_active_app = tick.before
       /\ (tick.pre.pending /\ tick.probe \in {tick.pre.last_active_app, NoApp}) =>
             /\ tick.calls = <<>>
             /\ \A i \in 1..Len(tick.log) : tick.log[i].req = "disconnect"
             /\ daemon.last_active_app = tick.pre.last_active_app
             /\ tally.pending
       /\ tick.calls # <<>> => tick.probe # tick.pre.last_active_app

\* The switch to 'editor' failed; the remote is back up and holds the scene,
\* Emacs is still in front, and nothing is sent.
C30_Witness ==
    /\ tick.op = "tick"
    /\ tick.pre.pending
    /\ tick.probe = "Emacs"
    /\ tick.pre.last_active_app = "Emacs"
    /\ remote.up
    /\ "editor" \in remote.scenes
    /\ daemon.config.obs = Server
    /\ tick.calls = <<>>
    /\ tick.log = <<>>

\* C22: an iteration of the loop, whatever failed in it (the probe, the
\* connect, a request, the scene missing, the reload, time.sleep raising into
\* the except branch of the loop), leaves the loop running, ends in a sleep
\* (the interval, or the back-off of 1 s after an exception) and can be
\* followed by another; run is past its loop only with the running flag cleared.
C22_LoopSurvivesFaults ==
    /\ daemon.pc \in {"created", "loop", "stopped"}
    /\ daemon.pc = "stopped" => ~daemon.running
    /\ tick.op = "tick" =>
          /\ daemon.pc = "loop"
          /\ daemon.running
          /\ tick.slept = IF tick.caught THEN back_off ELSE daemon.config.polling_interval
          /\ tick.caught <=> daemon.config.polling_interval < 0
          /\ ENABLED DaemonTick

\* The reload of a broken file fails, the switch fails on an unreachable
\* remote, and time.sleep raises: the loop goes on.
C22_Witness ==
    /\ tick.op = "tick"
    /\ tick.due
    /\ file.content.kind = "broken"
    /\ ~tick.reloaded
    /\ tick.calls # <<>>
    /\ TickConnectFailed
    /\ tick.caught
    /\ tick.slept = back_off
    /\ daemon.pc = "loop"
    /\ daemon.running

\* C23: with the running flag cleared no iteration starts and, in the loop,
\* the exit is the step to make; the exit makes no poll, reload or switch,
\* disconnects the client held (one disconnect request, whether the
\* connection is alive or not) and leaves run stopped; a stopped run makes
\* no further step.
C23_CooperativeShutdown ==
    /\ ~daemon.running => ~ENABLED DaemonTick
    /\ (~daemon.running /\ daemon.pc = "loop") => ENABLED DaemonExit
    /\ tick.op = "signal" => ~daemon.running
    /\ tick.op = "exit" =>
          /\ daemon.pc = "stopped"
          /\ ~daemon.running
          /\ tick.calls = <<>>
          /\ ~tick.reloaded
          /\ ~remote.link
          /\ Len(tick.log) = IF tick.pre.obs_client = NoClient THEN 0 ELSE 1
          /\ \A i \in 1..Len(tick.log) :
                tick.log[i].req = "disconnect" /\ tick.log[i].via = tick.pre.obs_client
    /\ daemon.pc = "stopped" =>
          /\ ~ENABLED DaemonStart
          /\ ~ENABLED DaemonTick
          /\ ~ENABLED DaemonExit
          /\ ~ENABLED HandleSignal

C23_Witness ==
    /\ tick.op = "exit"
    /\ tick.pre.obs_client = Server
    /\ tick.log = <<Req("disconnect", Server, TRUE)>>
    /\ daemon.pc = "stopped"
    /\ tally.switched >= 1

\* The polling interval the file gives, merged over the defaults.
FileInterval == Merged(file.content.user).polling_interval

ReloadedUnderHandle ==
    /\ tick.op = "tick"
    /\ tick.reloaded
    /\ tick.pre.obs_client # NoClient
    /\ tick.pre.obs_client # daemon.config.obs

\* C33: after a successful reload in the loop that changes host, port or
\* password while a connection is held, the old handle is dropped (also
\* when the transport's disconnect raises), and every scene-switch request
\* made afterwards goes over a connection made with the new settings.
C33_ReloadDropsOldHandle ==
    ReloadedUnderHandle =>
        /\ daemon.obs_client # tick.pre.obs_client
        /\ \A i \in 1..Len(tick.log) :
               tick.log[i].req \in {"GetSceneList", "SetCurrentProgramScene"} =>
                   tick.log[i].via = daemon.config.obs

(***************************************************************************)
(* Properties of the configuration loader                                  *)
(***************************************************************************)

\* C24: when a reload fails (unparsable, empty or invalid file), the
\* configuration read afterwards, its obs section and its app-to-scene
\* mapping included, is in every value the one that was active before the
\* attempt: no value of the rejected file shows.
C24_FailedReloadChangesNothing ==
    (cfg.op = "reload" /\ cfg.ret = "False") => Values(cm, cm.config) = cfg.config

\* C25: after a successful reload the mapping in effect is the one of the
\* newly loaded file merged over the built-in defaults only (a key of a
\* file loaded earlier that the new file lacks is gone), and no load has
\* modified the built-in default mapping itself.
C25_MappingReplacedWholesale ==
    /\ (cfg.op = "reload" /\ cfg.ret = "True") =>
           Values(cm, cm.config).app_scene_mappings =
               Updated(DEFAULT_CONFIG.app_scene_mappings, file.content.user.app_scene_mappings)
    /\ cm.DEFAULT_CONFIG.app_scene_mappings = DEFAULT_CONFIG.app_scene_mappings

====
